---- MODULE Spec2Model ----
(***************************************************************************)
(* Model of the `define` procedural macro of aerospike-code-gen            *)
(* (src/src/lib.rs): the sandboxed Lua run, the luaparse parse, the        *)
(* recursive validation of the syntax tree and the final result.           *)
(*                                                                         *)
(* A script is represented by what luaparse makes of it: either it does    *)
(* not parse, or it parses to a block of statements.  Every node carries   *)
(* its span (luaparse::HasSpan); a span is the path of the node from the   *)
(* root, and the lexicographic order of spans is the source order.         *)
(* The script is written token by token (Edit) up to MaxSize; define may   *)
(* be called on it at any point (ExecLua, Validate, Report).               *)
(***************************************************************************)
EXTENDS Integers, Sequences, FiniteSets, TLC

\* ------------------------------------------------------------------ bounds
\* Size of a script in tokens: one per simple statement, per name and per
\* assignment target, two (head and end) per statement that owns a block.
MaxSize == 6
\* Number of else-if branches of one If statement.
MaxElseIfs == 1

\* ----------------------------------------------------------- syntax trees
\* Identifiers used in the generated scripts: a reserved name and a name
\* that differs from it only in case.
IdentPool == {"map", "Map"}

\* Spans.  Statement i of the block at path p has span p \o <<i>>.  Under a
\* statement, in source order: slot 0 holds its names (parameters, declared
\* names, targets), slot 1 its body or primary block, then come the else-if
\* blocks and last the else block.
ElseIfSlot(k) == 1 + k
ElseSlot == MaxElseIfs + 2

\* luaparse::ast::Name at a span.
MkName(t, sp) == [text |-> t, span |-> sp]

\* luaparse::ast::Var at a span: a bare name, or a member / index expression
\* whose base and field are names.
VarsAt(sp) ==
    { [kind |-> "Name", name |-> MkName(t, sp), span |-> sp] : t \in IdentPool }
    \cup
    { [kind |-> k, base |-> MkName("map", sp \o <<1>>),
       field |-> MkName("list", sp \o <<2>>), span |-> sp] : k \in {"Member", "Index"} }

EmptyBlock == [statements |-> <<>>]

\* The smallest statements of every kind that fit in room units, at span sp.
NewStmts(sp, room) ==
    ( IF room < 1 THEN {} ELSE { [kind |-> "Other", span |-> sp] } )
    \cup
    ( IF room < 2 THEN {}
      ELSE
        { [kind |-> "LocalDeclaration", span |-> sp,
           names |-> << MkName(t, sp \o <<0, 1>>) >>] : t \in IdentPool }
        \cup
        { [kind |-> "Assignment", span |-> sp, vars |-> << v >>] :
             v \in VarsAt(sp \o <<0, 1>>) }
        \cup
        { [kind |-> "FunctionDeclaration", span |-> sp, variant |-> v,
           body |-> [params |-> <<>>, block |-> EmptyBlock]] : v \in {"Local", "Nonlocal"} }
        \cup
        { [kind |-> k, span |-> sp, block |-> EmptyBlock] :
             k \in {"While", "ForGeneric", "ForNumerical", "Repeat"} }
        \cup
        { [kind |-> "If", span |-> sp, block |-> EmptyBlock,
           elseifs |-> <<>>, else_ |-> <<>>] } )

RECURSIVE Grow(_, _, _)
RECURSIVE GrowStmt(_, _)
RECURSIVE Size(_)
RECURSIVE SizeOfBlocks(_)

\* The statement sequences grown from stmts by one token, within room units: a new statement at the end of the block at path p, or the last
\* statement grown.
Grow(stmts, p, room) ==
    { Append(stmts, st) : st \in NewStmts(p \o << Len(stmts) + 1 >>, room) }
    \cup
    ( IF stmts = <<>> THEN {}
      ELSE { [stmts EXCEPT ![Len(stmts)] = g] : g \in GrowStmt(stmts[Len(stmts)], room) } )

\* A statement grown by one name, one target, one else-if branch (which takes
\* no room), or by one statement somewhere in a block it owns.
GrowStmt(st, room) ==
    CASE st.kind = "LocalDeclaration" /\ room >= 1 ->
           { [st EXCEPT !.names =
                 Append(st.names, MkName(t, st.span \o << 0, Len(st.names) + 1 >>))] :
                 t \in IdentPool }
      [] st.kind = "Assignment" /\ room >= 1 ->
           { [st EXCEPT !.vars = Append(st.vars, v)] :
                 v \in VarsAt(st.span \o << 0, Len(st.vars) + 1 >>) }
      [] st.kind = "FunctionDeclaration" ->
           { [st EXCEPT !.body.params =
                 Append(st.body.params,
                        MkName(t, st.span \o << 0, Len(st.body.params) + 1 >>))] :
                 t \in IF room >= 1 THEN IdentPool ELSE {} }
           \cup
           { [st EXCEPT !.body.block.statements = g] :
                 g \in Grow(st.body.block.statements, st.span \o << 1 >>, room) }
      [] st.kind \in {"While", "ForGeneric", "ForNumerical", "Repeat"} ->
           { [st EXCEPT !.block.statements = g] :
                 g \in Grow(st.block.statements, st.span \o << 1 >>, room) }
      [] st.kind = "If" ->
           { [st EXCEPT !.block.statements = g] :
                 g \in Grow(st.block.statements, st.span \o << 1 >>, room) }
           \cup
           ( IF Len(st.elseifs) < MaxElseIfs
             THEN { [st EXCEPT !.elseifs = Append(st.elseifs, [block |-> EmptyBlock])] }
             ELSE {} )
           \cup
           UNION { { [st EXCEPT !.elseifs[k].block.statements = g] :
                        g \in Grow(st.elseifs[k].block.statements,
                                   st.span \o << ElseIfSlot(k) >>, room) } :
                   k \in 1..Len(st.elseifs) }
           \cup
           ( IF st.else_ = <<>>
             THEN { [st EXCEPT !.else_ = << [block |-> [statements |-> g]] >>] :
                       g \in Grow(<<>>, st.span \o << ElseSlot >>, room) }
             ELSE { [st EXCEPT !.else_[1].block.statements = g] :
                       g \in Grow(st.else_[1].block.statements,
                                  st.span \o << ElseSlot >>, room) } )
      [] OTHER -> {}

\* Size of a statement sequence.
Size(stmts) ==
    IF stmts = <<>> THEN 0
    ELSE LET st == Head(stmts)
             own ==
               CASE st.kind = "LocalDeclaration" -> 1 + Len(st.names)
                 [] st.kind = "Assignment" -> 1 + Len(st.vars)
                 [] st.kind = "FunctionDeclaration" ->
                      2 + Len(st.body.params) + Size(st.body.block.statements)
                 [] st.kind \in {"While", "ForGeneric", "ForNumerical", "Repeat"} ->
                      2 + Size(st.block.statements)
                 [] st.kind = "If" ->
                      2 + Size(st.block.statements) + SizeOfBlocks(st.elseifs)
                        + SizeOfBlocks(st.else_)
                 [] OTHER -> 1
         IN own + Size(Tail(stmts))

SizeOfBlocks(bs) ==
    IF bs = <<>> THEN 0
    ELSE Size(Head(bs).block.statements) + SizeOfBlocks(Tail(bs))

\* A script is what luaparse makes of it: a parse error, or a block.
Unparseable == [parses |-> FALSE]
Parsed(stmts) == [parses |-> TRUE, block |-> [statements |-> stmts]]

\* ------------------------------------------------------------- the program
None == [some |-> FALSE]
Some(v) == [some |-> TRUE, value |-> v]

\* src/src/lib.rs:64-74
AEROSPIKE_NAMES ==
    << "record", "map", "list", "aerospike", "bytes", "geojson", "iterator", "list", "stream" >>

\* src/src/lib.rs:76-83
is_reserved(s) ==
    \E i \in 1..Len(AEROSPIKE_NAMES) : AEROSPIKE_NAMES[i] = s

\* The two messages of validate_names (format!, lines 101-104 and 107); the
\* back-quotes around the name are written as apostrophes here.
ReservedMsg(name) ==
    "aerospike reserved identifier: '" \o name \o "'. consider renaming your variable"
GlobalMsg(name) == "global variables are not allowed: '" \o name \o "'"

\* The error list threaded through the traversal (errors: &mut Vec<String>).
\* msgs is the vector itself; at and visited are history: the span of the name
\* each message was pushed for, and the spans of the statements given to recurse.
NoErrors == [msgs |-> <<>>, at |-> <<>>, visited |-> <<>>]
push(errors, msg, sp) ==
    [errors EXCEPT !.msgs = Append(@, msg), !.at = Append(@, sp)]
visit(errors, sp) == [errors EXCEPT !.visited = Append(@, sp)]

RECURSIVE validate_names(_, _, _)
RECURSIVE loop_statements(_, _, _)
RECURSIVE loop_elseifs(_, _, _)
RECURSIVE recurse(_, _, _)

\* validate_names with the test of allow_vars inverted.
validate_names_inverted(names, errors, allow_vars) ==
    IF names = <<>> THEN errors
    ELSE LET param == Head(names)
             name  == param.text
             e1 == IF is_reserved(name)
                   THEN push(errors, ReservedMsg(name), param.span)
                   ELSE errors
             e2 == IF allow_vars
                   THEN push(e1, GlobalMsg(name), param.span)
                   ELSE e1
         IN validate_names(Tail(names), e2, allow_vars)

\* validate_names with the two checks in the other order.
validate_names_global_first(names, errors, allow_vars) ==
    IF names = <<>> THEN errors
    ELSE LET param == Head(names)
             name  == param.text
             e1 == IF ~allow_vars
                   THEN push(errors, GlobalMsg(name), param.span)
                   ELSE errors
             e2 == IF is_reserved(name)
                   THEN push(e1, ReservedMsg(name), param.span)
                   ELSE e1
         IN validate_names(Tail(names), e2, allow_vars)

\* src/src/lib.rs:97-110
validate_names(names, errors, allow_vars) ==
    IF names = <<>> THEN errors
    ELSE LET param == Head(names)
             name  == param.text
             e1 == IF is_reserved(name)
                   THEN push(errors, ReservedMsg(name), param.span)
                   ELSE errors
             e2 == IF ~allow_vars
                   THEN push(e1, GlobalMsg(name), param.span)
                   ELSE e1
         IN validate_names(Tail(names), e2, allow_vars)

\* validate_func handing is_global to validate_names as allow_vars.
validate_func_flag_confused(body, errors, is_global) ==
    LET names == body.params
        e1 == validate_names(names, errors, is_global)
    IN loop_statements(body.block.statements, e1, is_global)

\* src/src/lib.rs:85-89
validate_func(body, errors, is_global) ==
    LET names == body.params
        e1 == validate_names(names, errors, TRUE)
    IN loop_statements(body.block.statements, e1, is_global)

\* loop_statements leaving the loop at the first statement that pushed an error.
loop_statements_fail_fast(stmts, errors, is_global) ==
    IF stmts = <<>> THEN errors
    ELSE LET e == recurse(Head(stmts), errors, is_global)
         IN IF Len(e.msgs) > Len(errors.msgs) THEN e
            ELSE loop_statements(Tail(stmts), e, is_global)

\* src/src/lib.rs:91-95
loop_statements(stmts, errors, is_global) ==
    IF stmts = <<>> THEN errors
    ELSE loop_statements(Tail(stmts), recurse(Head(stmts), errors, is_global), is_global)

\* src/src/lib.rs:158-160: for elseif in &i.elseifs
loop_elseifs(elseifs, errors, is_global) ==
    IF elseifs = <<>> THEN errors
    ELSE loop_elseifs(Tail(elseifs),
                      loop_statements(Head(elseifs).block.statements, errors, is_global),
                      is_global)

\* The target names without the filter on Var::Name: a member or index
\* expression contributes its base name.
assignment_names_unfiltered(vars) ==
    [i \in 1..Len(vars) |-> IF vars[i].kind = "Name" THEN vars[i].name ELSE vars[i].base]

\* src/src/lib.rs:132-148: the targets of an assignment that are Var::Name
assignment_names(vars) ==
    LET keep == SelectSeq(vars, LAMBDA a : a.kind = "Name")
    IN [i \in 1..Len(keep) |-> keep[i].name]

\* recurse without the demotion of is_global (lines 114-117 set allow_vars only).
recurse_no_demotion(stmt, errors_in, is_global_in) ==
    LET errors     == visit(errors_in, stmt.span)
        allow_vars == IF is_global_in THEN FALSE ELSE TRUE
        is_global  == is_global_in
    IN CASE stmt.kind = "FunctionDeclaration" ->
              IF stmt.variant = "Local"
              THEN validate_func(stmt.body, errors, is_global)
              ELSE validate_func(stmt.body, errors, is_global)
         [] stmt.kind = "LocalDeclaration" ->
              validate_names(stmt.names, errors, allow_vars)
         [] stmt.kind = "Assignment" ->
              validate_names(assignment_names(stmt.vars), errors, allow_vars)
         [] stmt.kind = "If" ->
              LET e1 == loop_statements(stmt.block.statements, errors, is_global)
                  e2 == IF stmt.else_ # <<>>
                        THEN loop_statements(stmt.else_[1].block.statements, e1, is_global)
                        ELSE e1
              IN loop_elseifs(stmt.elseifs, e2, is_global)
         [] stmt.kind = "While" ->
              loop_statements(stmt.block.statements, errors, is_global)
         [] stmt.kind \in {"ForGeneric", "ForNumerical"} ->
              loop_statements(stmt.block.statements, errors, is_global)
         [] stmt.kind = "Repeat" ->
              loop_statements(stmt.block.statements, errors, is_global)
         [] OTHER -> errors

\* src/src/lib.rs:112-178
recurse(stmt, errors_in, is_global_in) ==
    LET errors     == visit(errors_in, stmt.span)
        allow_vars == IF is_global_in THEN FALSE ELSE TRUE
        is_global  == IF is_global_in THEN FALSE ELSE is_global_in
    IN CASE stmt.kind = "FunctionDeclaration" ->
              IF stmt.variant = "Local"
              THEN validate_func(stmt.body, errors, is_global)
              ELSE validate_func(stmt.body, errors, is_global)
         [] stmt.kind = "LocalDeclaration" ->
              validate_names(stmt.names, errors, allow_vars)
         [] stmt.kind = "Assignment" ->
              validate_names(assignment_names(stmt.vars), errors, allow_vars)
         [] stmt.kind = "If" ->
              LET e1 == loop_statements(stmt.block.statements, errors, is_global)
                  e2 == IF stmt.else_ # <<>>
                        THEN loop_statements(stmt.else_[1].block.statements, e1, is_global)
                        ELSE e1
              IN loop_elseifs(stmt.elseifs, e2, is_global)
         [] stmt.kind = "While" ->
              loop_statements(stmt.block.statements, errors, is_global)
         [] stmt.kind \in {"ForGeneric", "ForNumerical"} ->
              loop_statements(stmt.block.statements, errors, is_global)
         [] stmt.kind = "Repeat" ->
              loop_statements(stmt.block.statements, errors, is_global)
         [] OTHER -> errors

\* src/src/lib.rs:53-62, the Ok arm: the errors of a parsed block
validate_aerospike(block) ==
    loop_statements(block.statements, NoErrors, TRUE)

\* -------------------------------------------------------------- the state
VARIABLES
    s,          \* the input text (line 14)
    pc,         \* position in define: "source", "validate", "report", "done", "panic"
    lua_err,    \* line 15
    errors,     \* line 24: the Vec<String> validate_aerospike returned
    at,         \* history: the span each error was pushed for
    visited,    \* history: spans of the statements recurse was called on
    calls,      \* history: the collaborators invoked so far, in order
    result      \* what define returned

vars == << s, pc, lua_err, errors, at, visited, calls, result >>

Init ==
    /\ s \in { Unparseable, Parsed(<<>>) }
    /\ pc = "source"
    /\ lua_err = None
    /\ errors = <<>>
    /\ at = <<>>
    /\ visited = <<>>
    /\ calls = <<>>
    /\ result = [tag |-> "none"]

\* The script under the macro grows by one token, up to MaxSize.
Edit ==
    /\ pc = "source"
    /\ s.parses
    /\ \E ss \in Grow(s.block.statements, <<>>, MaxSize - Size(s.block.statements)) :
          s' = Parsed(ss)
    /\ UNCHANGED << pc, lua_err, errors, at, visited, calls, result >>

\* src/src/lib.rs:14-22: define is called on the script; the chunk is loaded
\* and executed, and the interpreter reports an error or not.
ExecLua ==
    /\ pc = "source"
    /\ \E failed \in BOOLEAN :
          lua_err' = IF failed THEN Some("lua error") ELSE None
    /\ calls' = Append(calls, "lua")
    /\ pc' = "validate"
    /\ UNCHANGED << s, errors, at, visited, result >>

\* Validate with the parse error folded into the error list instead of a panic.
Validate_folds_parse_error ==
    /\ pc = "validate"
    /\ IF s.parses
       THEN LET r == validate_aerospike(s.block)
            IN /\ errors' = r.msgs
               /\ at' = r.at
               /\ visited' = r.visited
               /\ calls' = calls \o << "parse", "validator" >>
       ELSE /\ errors' = << "parse error" >>
            /\ calls' = Append(calls, "parse")
            /\ UNCHANGED << at, visited >>
    /\ pc' = "report"
    /\ UNCHANGED << s, lua_err, result >>

\* src/src/lib.rs:24 and 53-62: luaparse::parse, then the traversal; a parse
\* error panics.
Validate ==
    /\ pc = "validate"
    /\ IF s.parses
       THEN LET r == validate_aerospike(s.block)
            IN /\ errors' = r.msgs
               /\ at' = r.at
               /\ visited' = r.visited
               /\ calls' = calls \o << "parse", "validator" >>
               /\ pc' = "report"
               /\ UNCHANGED result
       ELSE /\ calls' = Append(calls, "parse")
            /\ pc' = "panic"
            /\ result' = [tag |-> "ParseFailure"]
            /\ UNCHANGED << errors, at, visited >>
    /\ UNCHANGED << s, lua_err >>

\* define reporting the interpreter's error before looking at the validator's.
define_result_lua_first(text, errs, lerr) ==
    IF lerr.some
    THEN [tag |-> "Rejected", reasons |-> << lerr.value >>]
    ELSE IF errs # <<>>
         THEN [tag |-> "Rejected", reasons |-> errs]
         ELSE [tag |-> "Accepted", text |-> text]

\* define combining the interpreter's error with the validator's.
define_result_mixed(text, errs, lerr) ==
    LET all == errs \o (IF lerr.some THEN << lerr.value >> ELSE <<>>)
    IN IF all # <<>>
       THEN [tag |-> "Rejected", reasons |-> all]
       ELSE [tag |-> "Accepted", text |-> text]

\* src/src/lib.rs:25-50
define_result(text, errs, lerr) ==
    IF errs # <<>>
    THEN [tag |-> "Rejected", reasons |-> errs]
    ELSE IF lerr.some
         THEN [tag |-> "Rejected", reasons |-> << lerr.value >>]
         ELSE [tag |-> "Accepted", text |-> text]

Report ==
    /\ pc = "report"
    /\ result' = define_result(s, errors, lua_err)
    /\ pc' = "done"
    /\ UNCHANGED << s, lua_err, errors, at, visited, calls >>

Next == Edit \/ ExecLua \/ Validate \/ Report

Spec == Init /\ [][Next]_vars

\* ----------------------------------------------- reading a script directly
\* What the claims say about a script is read off the tree itself, without
\* the traversal of the program.

\* The eight names the sandbox binds.
Registry ==
    { "record", "map", "list", "aerospike", "bytes", "geojson", "iterator", "stream" }

\* Names on which is_reserved is compared with the Registry.
NameUniverse ==
    Registry \cup IdentPool \cup { "Record", "LIST", "maps", "strea", "x", "" }

\* The statement sequences a statement owns, in source order.
BlocksOf(st) ==
    CASE st.kind = "FunctionDeclaration" -> << st.body.block.statements >>
      [] st.kind \in {"While", "ForGeneric", "ForNumerical", "Repeat"} ->
           << st.block.statements >>
      [] st.kind = "If" ->
           << st.block.statements >>
           \o [k \in 1..Len(st.elseifs) |-> st.elseifs[k].block.statements]
           \o [k \in 1..Len(st.else_) |-> st.else_[k].block.statements]
      [] OTHER -> <<>>

RECURSIVE StmtsIn(_)
RECURSIVE StmtsInBlocks(_)
\* Every statement of a statement sequence, at any depth, in source order.
StmtsIn(stmts) ==
    IF stmts = <<>> THEN <<>>
    ELSE << Head(stmts) >> \o StmtsInBlocks(BlocksOf(Head(stmts))) \o StmtsIn(Tail(stmts))

StmtsInBlocks(blocks) ==
    IF blocks = <<>> THEN <<>>
    ELSE StmtsIn(Head(blocks)) \o StmtsInBlocks(Tail(blocks))

\* The statements of the script.
AllStmts == IF s.parses THEN StmtsIn(s.block.statements) ELSE <<>>

IsRootChild(st) == Len(st.span) = 1

\* The bare-identifier targets of an assignment, as a set of positions.
NameTargets(st) == { i \in 1..Len(st.vars) : st.vars[i].kind = "Name" }

\* The names a declaration introduces: the names of a LocalDeclaration, the
\* bare-identifier targets of an Assignment.
DeclaredNames(st) ==
    CASE st.kind = "LocalDeclaration" -> { st.names[i] : i \in 1..Len(st.names) }
      [] st.kind = "Assignment" -> { st.vars[i].name : i \in NameTargets(st) }
      [] OTHER -> {}

ParamNames(st) ==
    IF st.kind = "FunctionDeclaration"
    THEN { st.body.params[i] : i \in 1..Len(st.body.params) }
    ELSE {}

\* The diagnostics pushed for the name at span sp, in the order of the result.
DiagsAt(sp) ==
    LET F[i \in 0..Len(at)] ==
          IF i = 0 THEN <<>>
          ELSE IF at[i] = sp THEN Append(F[i - 1], errors[i]) ELSE F[i - 1]
    IN F[Len(at)]

\* The diagnostics the two rules give one declared name.
RuleDiags(n, root) ==
    (IF n.text \in Registry THEN << ReservedMsg(n.text) >> ELSE <<>>)
    \o (IF root THEN << GlobalMsg(n.text) >> ELSE <<>>)

GlobalMsgs == { GlobalMsg(t) : t \in NameUniverse }
ReservedMsgs == { ReservedMsg(t) : t \in NameUniverse }
IsGlobalMsg(m) == m \in GlobalMsgs
IsReservedMsg(m) == m \in ReservedMsgs

RECURSIVE SpanBefore(_, _)
\* Source order of two spans.
SpanBefore(a, b) ==
    IF b = <<>> THEN FALSE
    ELSE IF a = <<>> THEN TRUE
    ELSE IF Head(a) # Head(b) THEN Head(a) < Head(b)
    ELSE SpanBefore(Tail(a), Tail(b))

\* The Validator has just returned its list (line 24); define has yet to
\* build its result from it, and does not change it.
Validated == pc = "report"

\* No declaration of the script violates a rule.
NoViolation ==
    LET all == AllStmts
    IN \A k \in 1..Len(all) :
       LET st == all[k]
       IN
       /\ \A n \in ParamNames(st) : n.text \notin Registry
       /\ \A n \in DeclaredNames(st) : n.text \notin Registry /\ ~IsRootChild(st)

\* ------------------------------------------------------------------ claims

\* C1 (as stated): the Sanity-Checker is invoked only after the Validator has
\* produced an empty diagnostic list, and never when the Validator produced a
\* diagnostic or parsing failed.
C1_SanityAfterEmptyValidation ==
    \A i \in 1..Len(calls) :
       calls[i] = "lua" =>
          /\ \E j \in 1..(i - 1) : calls[j] = "validator"
          /\ errors = <<>>

\* C1 (amended): the Sanity-Checker is invoked in every run, once, before the
\* Parser and the Validator, also when parsing fails or the Validator produces
\* diagnostics; its failure is the reported reason only when the Validator
\* has produced an empty diagnostic list.
C1_SanityFirstReportedLast ==
    /\ pc # "source" =>
          /\ calls # <<>>
          /\ calls[1] = "lua"
          /\ \A i \in 2..Len(calls) : calls[i] # "lua"
    /\ (pc = "done" /\ lua_err.some /\ result.tag = "Rejected"
          /\ \E i \in 1..Len(result.reasons) : result.reasons[i] = lua_err.value)
       => errors = <<>>

C1_Witness ==
    /\ pc = "done"
    /\ lua_err.some
    /\ errors # <<>>
    /\ calls = << "lua", "parse", "validator" >>

\* C2: the diagnostics are in the source order of the names they are about:
\* no diagnostic of a later declaration precedes one of an earlier declaration.
C2_SourceOrder ==
    Validated =>
       \A i, j \in 1..Len(at) : i < j => ~SpanBefore(at[j], at[i])

\* C3: a GlobalVariableViolation is emitted for a name if and only if the name
\* is declared by a LocalDeclaration or by a bare-identifier target of an
\* Assignment that is a direct child of the root block.
C3_GlobalIffRootDeclaration ==
    Validated =>
       { << at[i], errors[i] >> : i \in { k \in 1..Len(errors) : IsGlobalMsg(errors[k]) } }
       = UNION { { << n.span, GlobalMsg(n.text) >> :
                     n \in DeclaredNames(s.block.statements[k]) } :
                 k \in 1..Len(s.block.statements) }

C3_Witness ==
    /\ Validated
    /\ Len(s.block.statements) = 2
    /\ s.block.statements[1].kind = "FunctionDeclaration"
    /\ \E k \in 1..Len(s.block.statements[1].body.block.statements) :
          DeclaredNames(s.block.statements[1].body.block.statements[k]) # {}
    /\ s.block.statements[2].kind = "LocalDeclaration"
    /\ \E i \in 1..Len(errors) : IsGlobalMsg(errors[i])

\* is_reserved holds of the registry names and of no other name.  It is a
\* function of the name alone, and is compared once, before define is called.
RegistryIsReserved ==
    pc = "source" => \A t \in NameUniverse : is_reserved(t) <=> t \in Registry

\* C4: every parameter of every FunctionDeclaration, at any depth, yields a
\* ReservedIdentifierViolation if and only if its name is one of the eight
\* registry names (compared exactly), and never a GlobalVariableViolation.
C4_ParamsReservedOnly ==
    /\ RegistryIsReserved
    /\ Validated =>
          LET all == AllStmts
          IN \A k \in 1..Len(all) : \A n \in ParamNames(all[k]) :
                DiagsAt(n.span) = IF n.text \in Registry
                                  THEN << ReservedMsg(n.text) >> ELSE <<>>

C4_Witness ==
    /\ Validated
    /\ \E i, j \in 1..Len(AllStmts) :
          LET f == AllStmts[i]
              g == AllStmts[j]
          IN
          /\ IsRootChild(f) /\ ~IsRootChild(g)
          /\ \E n \in ParamNames(f) : n.text = "map"
          /\ \E n \in ParamNames(g) : n.text = "map"
    /\ Len(errors) = 2

\* C5: the Validator visits every statement of the script, each once, and
\* every violating name has its diagnostics in the one result, however many
\* violations precede it.
C5_NoEarlyExit ==
    /\ Validated =>
          LET all == AllStmts
          IN
          /\ { visited[i] : i \in 1..Len(visited) } = { all[k].span : k \in 1..Len(all) }
          /\ Len(visited) = Len(all)
          /\ \A k \in 1..Len(all) :
                LET st == all[k]
                IN
                /\ \A n \in ParamNames(st) \cup DeclaredNames(st) :
                      n.text \in Registry =>
                         \E i \in 1..Len(errors) :
                            at[i] = n.span /\ errors[i] = ReservedMsg(n.text)
                /\ \A n \in DeclaredNames(st) :
                      IsRootChild(st) =>
                         \E i \in 1..Len(errors) :
                            at[i] = n.span /\ errors[i] = GlobalMsg(n.text)
    /\ (pc = "done" /\ errors # <<>>) =>
          result = [tag |-> "Rejected", reasons |-> errors]

C5_Witness ==
    /\ pc = "done"
    /\ Len(s.block.statements) = 2
    /\ s.block.statements[1].kind = "FunctionDeclaration"
    /\ \E n \in ParamNames(s.block.statements[1]) : n.text = "map"
    /\ s.block.statements[2].kind = "LocalDeclaration"
    /\ result.tag = "Rejected"
    /\ Len(result.reasons) >= 2
    /\ \E i, j \in 1..Len(result.reasons) :
          IsReservedMsg(result.reasons[i]) /\ IsGlobalMsg(result.reasons[j])

\* C6: when the Parser rejects the text the run aborts with the parser's
\* message: no statement is traversed, the Validator is not invoked, no
\* diagnostic list is produced, and the outcome is neither Accepted nor Rejected.
C6_ParseFailureAborts ==
    /\ ~s.parses => pc \in { "source", "validate", "panic" }
    /\ pc = "panic" =>
          /\ ~s.parses
          /\ visited = <<>>
          /\ errors = <<>>
          /\ \A i \in 1..Len(calls) : calls[i] # "validator"
          /\ result = [tag |-> "ParseFailure"]

C6_Witness ==
    /\ pc = "panic"
    /\ lua_err.some
    /\ calls = << "lua", "parse" >>

\* C7: the reasons of a Rejected result come from one source: all of the
\* Validator's diagnostics and nothing else when there is at least one, also
\* when the sandboxed run failed; otherwise the Sanity-Checker's message alone.
C7_OneSource ==
    (pc = "done" /\ result.tag = "Rejected") =>
       IF errors # <<>>
       THEN result.reasons = errors
       ELSE lua_err.some /\ result.reasons = << lua_err.value >>

C7_Witness ==
    /\ pc = "done"
    /\ result.tag = "Rejected"
    /\ Len(errors) >= 2
    /\ lua_err.some

\* C8: a script that parses, has no violating declaration and runs cleanly is
\* Accepted with its text unchanged.
C8_Identity ==
    (pc = "done" /\ s.parses /\ NoViolation /\ ~lua_err.some) =>
       result = [tag |-> "Accepted", text |-> s]

C8_Witness ==
    /\ pc = "done"
    /\ result.tag = "Accepted"
    /\ \E k \in 1..Len(AllStmts) : DeclaredNames(AllStmts[k]) # {}
    /\ \E k \in 1..Len(AllStmts) : ParamNames(AllStmts[k]) # {}

\* C9: of the targets of an Assignment, at the root or nested, the bare
\* identifiers get the diagnostics of the two rules and the member and index
\* expressions get none, whatever their base and field names.
C9_OnlyBareTargets ==
    Validated =>
       LET all == AllStmts
       IN \A k \in { j \in 1..Len(all) : all[j].kind = "Assignment" } :
          \A i \in 1..Len(all[k].vars) :
             LET st == all[k]
                 v  == st.vars[i]
             IN IF v.kind = "Name"
                THEN DiagsAt(v.name.span) = RuleDiags(v.name, IsRootChild(st))
                ELSE \A e \in 1..Len(at) :
                        at[e] \notin { v.span, v.base.span, v.field.span }

C9_Witness ==
    /\ Validated
    /\ \E k \in 1..Len(s.block.statements) :
          LET st == s.block.statements[k]
          IN
          /\ st.kind = "Assignment"
          /\ IsRootChild(st)
          /\ Len(st.vars) = 2
          /\ st.vars[1].kind = "Member"
          /\ st.vars[2].kind = "Name"
          /\ st.vars[2].name.text = "map"
    /\ Len(errors) = 2

RECURSIVE RootDiags(_)
\* The diagnostics of the names of a root declaration, name after name.
RootDiags(names) ==
    IF names = <<>> THEN <<>>
    ELSE LET n == Head(names)
         IN [k \in 1..Len(RuleDiags(n, TRUE)) |->
                [msg |-> RuleDiags(n, TRUE)[k], span |-> n.span]]
            \o RootDiags(Tail(names))

\* The checked names of a declaration, in target order.
CheckedSeq(st) ==
    IF st.kind = "LocalDeclaration" THEN st.names
    ELSE LET F[i \in 0..Len(st.vars)] ==
               IF i = 0 THEN <<>>
               ELSE IF st.vars[i].kind = "Name"
                    THEN Append(F[i - 1], st.vars[i].name) ELSE F[i - 1]
         IN F[Len(st.vars)]

\* C10: for a LocalDeclaration or Assignment at the root, the diagnostics of its
\* names are one run of consecutive entries of the result: name after name in
\* target order, once per occurrence, the ReservedIdentifierViolation (if the
\* name is reserved) immediately followed by the GlobalVariableViolation.
C10_ReservedThenGlobal ==
    Validated =>
       \A r \in { k \in 1..Len(s.block.statements) :
                      s.block.statements[k].kind \in {"LocalDeclaration", "Assignment"} } :
          LET st   == s.block.statements[r]
              want == RootDiags(CheckedSeq(st))
              idx  == { i \in 1..Len(at) : \E n \in DeclaredNames(st) : at[i] = n.span }
          IN /\ Cardinality(idx) = Len(want)
             /\ idx # {} =>
                  LET lo == CHOOSE i \in idx : \A j \in idx : i <= j
                  IN \A k \in 1..Len(want) :
                        /\ lo + k - 1 \in idx
                        /\ errors[lo + k - 1] = want[k].msg
                        /\ at[lo + k - 1] = want[k].span

C10_Witness ==
    /\ Validated
    /\ Len(s.block.statements) = 2
    /\ s.block.statements[1].kind = "LocalDeclaration"
    /\ Len(s.block.statements[1].names) = 2
    /\ s.block.statements[1].names[1].text = "map"
    /\ s.block.statements[1].names[2].text = "map"
    /\ s.block.statements[2].kind = "Assignment"
    /\ s.block.statements[2].vars[1].kind = "Name"
    /\ s.block.statements[2].vars[1].name.text = "Map"
    /\ Len(errors) = 5

====
